---- MODULE Spec2Model ----
(***************************************************************************)
(* Model of the PoissonNetwork inference engine                            *)
(* (src/src/poissonsolver/network.py) and of the metrics report            *)
(* (src/src/poissonsolver/eval_dataset.py).                                *)
(*                                                                         *)
(* Numbers are exact rationals <<num, den>> (den > 0, lowest terms):       *)
(* floating-point rounding is not modelled.  A field (numpy array / torch  *)
(* tensor of one sample and one channel) is a sequence of rows, each a     *)
(* sequence of rationals, so that its shape is part of its value.          *)
(***************************************************************************)
EXTENDS Integers, Sequences, FiniteSets, TLC

(***************************************************************************)
(* Bounds of the model                                                     *)
(***************************************************************************)
MaxIts == 2
MaxBatches == 2
MaxCalls == 2
MaxRuns == 2

(***************************************************************************)
(* Exact rational arithmetic                                               *)
(*                                                                         *)
(* TLC evaluates an operator's argument anew at each use of the parameter. *)
(* The operators below therefore bind their arguments once (as the bound   *)
(* variable of a one-element set) before using them.                       *)
(***************************************************************************)
Abs(n) == IF n < 0 THEN -n ELSE n

RECURSIVE GCD(_, _)
GCD(a, b) == IF b = 0 THEN a ELSE CHOOSE g \in {GCD(y, m) : y \in {b}, m \in {a % b}} : TRUE

NormV(n, d, g) == IF d < 0 THEN <<(-n) \div g, (-d) \div g>> ELSE <<n \div g, d \div g>>
RNorm(n0, d0) ==
    CHOOSE r \in {NormV(n, d, GCD(Abs(n), Abs(d))) : n \in {n0}, d \in {d0}} : TRUE

R(k) == <<k, 1>>

\* sums over the least common denominator and products after cross-cancelling
\* keep the intermediate integers small
AddV(a, b, g) == RNorm(a[1] * (b[2] \div g) + b[1] * (a[2] \div g), (a[2] \div g) * b[2])
RAdd(x, y) == CHOOSE r \in {AddV(a, b, GCD(a[2], b[2])) : a \in {x}, b \in {y}} : TRUE

MulV(a, b, g1, g2) ==
    RNorm((a[1] \div g1) * (b[1] \div g2), (a[2] \div g2) * (b[2] \div g1))
RMul(x, y) ==
    CHOOSE r \in {MulV(a, b, GCD(Abs(a[1]), b[2]), GCD(Abs(b[1]), a[2])) :
                    a \in {x}, b \in {y}} : TRUE

RNeg(x) == CHOOSE r \in {<<-a[1], a[2]>> : a \in {x}} : TRUE
RInv(x) ==
    CHOOSE r \in {IF a[1] < 0 THEN <<-a[2], -a[1]>> ELSE <<a[2], a[1]>> : a \in {x}} : TRUE
RSub(x, y) == RAdd(x, RNeg(y))
RDiv(x, y) == RMul(x, RInv(y))
RAbs(x) == CHOOSE r \in {<<Abs(a[1]), a[2]>> : a \in {x}} : TRUE
RLess(x, y) == \E a \in {x}, b \in {y} : a[1] * b[2] < b[1] * a[2]
RMax(x, y) == CHOOSE r \in {IF RLess(a, b) THEN b ELSE a : a \in {x}, b \in {y}} : TRUE
RFloor(x) == CHOOSE r \in {a[1] \div a[2] : a \in {x}} : TRUE

\* the sum of the first n entries of the sequence s
RECURSIVE SumTo(_, _)
SumTo(s, n) ==
    IF n = 0 THEN R(0) ELSE CHOOSE r \in {RAdd(s[n], SumTo(s, m)) : m \in {n - 1}} : TRUE
RSum(s0) == CHOOSE r \in {SumTo(s, Len(s)) : s \in {s0}} : TRUE

(***************************************************************************)
(* Fields                                                                  *)
(***************************************************************************)
\* the value of a function expression, tabulated: comparing a function
\* makes TLC evaluate it at every argument, once
Tab(f) == CHOOSE v \in {f} : v = v

Shape(f0) == CHOOSE r \in {<<Len(f), IF Len(f) = 0 THEN 0 ELSE Len(f[1])>> : f \in {f0}} : TRUE

Scale(k0, f0) ==
    CHOOSE r \in {Tab([i \in 1..Len(f) |-> [j \in 1..Len(f[i]) |-> RMul(k, f[i][j])]]) :
                    k \in {k0}, f \in {f0}} : TRUE

\* numpy reshape(-1): row-major flattening
FlattenV(f, w) ==
    Tab([k \in 1..(Len(f) * w) |-> f[((k - 1) \div w) + 1][((k - 1) % w) + 1]])
Flatten(f0) == CHOOSE r \in {FlattenV(f, Shape(f)[2]) : f \in {f0}} : TRUE

\* numpy reshape(rows, cols) of a flat vector of length rows * cols
Reshape(v0, rows, cols) ==
    CHOOSE r \in {Tab([i \in 1..rows |-> [j \in 1..cols |-> v[(i - 1) * cols + j]]]) :
                    v \in {v0}} : TRUE

ConstField(rows, cols, v) == Tab([i \in 1..rows |-> [j \in 1..cols |-> v]])

(***************************************************************************)
(* torch.nn.functional.interpolate(x, size, mode, align_corners=True)      *)
(***************************************************************************)
InterpKinds == {"bilinear", "bicubic"}

Clamp(k, n) == IF k < 0 THEN 0 ELSE IF k > n - 1 THEN n - 1 ELSE k

\* source coordinate (0-based) of output index i (1-based), corners aligned
SrcCoord(i, inLen, outLen) ==
    IF outLen > 1 THEN RNorm((i - 1) * (inLen - 1), outLen - 1) ELSE R(0)

\* cubic convolution kernel with A = -3/4, as two polynomial pieces
CubicA == <<-3, 4>>
CubicConv1(x0) ==
    CHOOSE r \in
        {RAdd(RMul(RMul(RSub(RMul(RAdd(CubicA, R(2)), x), RAdd(CubicA, R(3))), x), x), R(1)) :
            x \in {x0}} : TRUE
CubicConv2(x0) ==
    CHOOSE r \in
        {RSub(RMul(RAdd(RMul(RSub(RMul(CubicA, x), RMul(R(5), CubicA)), x),
                        RMul(R(8), CubicA)), x),
              RMul(R(4), CubicA)) : x \in {x0}} : TRUE

\* the input samples <<index (1-based), weight>> that make an output sample
\* at source coordinate i0 + t
AllTaps(mode, i0, t, inLen) ==
    IF mode = "bilinear"
    THEN << <<Clamp(i0, inLen) + 1, RSub(R(1), t)>>,
            <<Clamp(i0 + 1, inLen) + 1, t>> >>
    ELSE << <<Clamp(i0 - 1, inLen) + 1, CubicConv2(RAdd(t, R(1)))>>,
            <<Clamp(i0, inLen) + 1, CubicConv1(t)>>,
            <<Clamp(i0 + 1, inLen) + 1, CubicConv1(RSub(R(1), t))>>,
            <<Clamp(i0 + 2, inLen) + 1, CubicConv2(RSub(R(2), t))>> >>

\* the samples of weight zero add nothing and are left out
NonZeroWeight(tap) == tap[2] # R(0)
TapsV(mode, i0, t, inLen) == SelectSeq(AllTaps(mode, i0, t, inLen), NonZeroWeight)

Taps(mode, i, inLen, outLen) ==
    CHOOSE r \in {TapsV(mode, RFloor(src), RSub(src, R(RFloor(src))), inLen) :
                    src \in {SrcCoord(i, inLen, outLen)}} : TRUE

\* every output index's taps, along an axis
AxisTaps(mode, inLen, outLen) == Tab([i \in 1..outLen |-> Tab(Taps(mode, i, inLen, outLen))])

InterpAt(f, ty, tx) ==
    RSum(Tab([a \in 1..Len(ty) |->
        RSum(Tab([b \in 1..Len(tx) |->
            RMul(RMul(ty[a][2], tx[b][2]), f[ty[a][1]][tx[b][1]])]))]))

InterpolateV(f, size, tys, txs) ==
    Tab([i \in 1..size[1] |-> [j \in 1..size[2] |-> InterpAt(f, tys[i], txs[j])]])

\* the axis lengths that occur (grid sizes and model input resolutions);
\* the taps of each pair of lengths are tabulated once
AxisLens == {3, 5, 6}
TapTable ==
    Tab([mode \in InterpKinds |->
            [io \in AxisLens \X AxisLens |-> AxisTaps(mode, io[1], io[2])]])

Interpolate(f0, size, mode) ==
    CHOOSE r \in {InterpolateV(f, size, TapTable[mode][<<Len(f), size[1]>>],
                               TapTable[mode][<<Len(f[1]), size[2]>>]) : f \in {f0}} : TRUE

(***************************************************************************)
(* Linear system (linsystem.cartesian_matrix, linsystem.impose_dirichlet)  *)
(***************************************************************************)
\* The sparse matrix is kept by what determines it: the grid it was built
\* for.  Its entries are computed on demand by MatEntry.
cartesian_matrix(dx, dy, nnx, nny) == [nnx |-> nnx, nny |-> nny, dx |-> dx, dy |-> dy]

MatSize(mat) == mat.nnx * mat.nny

NodeRow(mat, k) == ((k - 1) \div mat.nnx) + 1
NodeCol(mat, k) == ((k - 1) % mat.nnx) + 1
IsBoundaryNode(mat, k) ==
    \/ NodeRow(mat, k) \in {1, mat.nny}
    \/ NodeCol(mat, k) \in {1, mat.nnx}

MatEntry(mat, k, l) ==
    IF IsBoundaryNode(mat, k) THEN (IF k = l THEN R(1) ELSE R(0))
    ELSE IF k = l
         THEN RNeg(RMul(R(2), RAdd(RInv(RMul(mat.dx, mat.dx)), RInv(RMul(mat.dy, mat.dy)))))
    ELSE IF NodeRow(mat, k) = NodeRow(mat, l) /\ Abs(k - l) = 1
         THEN RInv(RMul(mat.dx, mat.dx))
    ELSE IF NodeCol(mat, k) = NodeCol(mat, l) /\ Abs(k - l) = mat.nnx
         THEN RInv(RMul(mat.dy, mat.dy))
    ELSE R(0)

\* overwrite the boundary entries of the field with the boundary values
impose_dirichlet(rhs, bc) ==
    Tab([i \in 1..Len(rhs) |-> [j \in 1..Len(rhs[1]) |->
            IF i = Len(rhs) THEN bc.top[j]
            ELSE IF i = 1 THEN bc.bottom[j]
            ELSE IF j = Len(rhs[1]) THEN bc.right[i]
            ELSE IF j = 1 THEN bc.left[i]
            ELSE rhs[i][j]]])

\* the assignment of a boundary array to a slice of the field broadcasts
\* only when the lengths agree
BcFits(rhs, bc) ==
    /\ Len(bc.left) = Len(rhs) /\ Len(bc.right) = Len(rhs)
    /\ Len(bc.bottom) = Len(rhs[1]) /\ Len(bc.top) = Len(rhs[1])

(***************************************************************************)
(* Correction sweeps                                                       *)
(***************************************************************************)
\* sum over the neighbours l of k (the off-diagonal entries of row k that
\* are not zero) of M[k][l] * v[l]
Neighbours(mat, k) ==
    IF IsBoundaryNode(mat, k) THEN <<>>
    ELSE <<k - mat.nnx, k - 1, k + 1, k + mat.nnx>>

OffDiagDotV(mat, k, v, nb) ==
    RSum(Tab([a \in 1..Len(nb) |-> RMul(MatEntry(mat, k, nb[a]), v[nb[a]])]))
OffDiagDot(mat, k, v) == OffDiagDotV(mat, k, v, Neighbours(mat, k))

\* potential <- - lstar_inv . rhs - lstar_invU . potential, computed by the
\* forward substitution that lstar_inv stands for
RECURSIVE GaussSeidelFrom(_, _, _, _)
GaussSeidelFrom(mat, b, p, k) ==
    IF k > Len(p) THEN p
    ELSE \* the new value of node k, then the nodes after it
         CHOOSE r \in
            {GaussSeidelFrom(mat, b, q, k1) :
                k1 \in {k + 1},
                q \in {[p EXCEPT ![k] = RDiv(RSub(RNeg(b[k]), OffDiagDot(mat, k, p)),
                                             MatEntry(mat, k, k))]}} : TRUE

GaussSeidelSweep(mat, b, p) == GaussSeidelFrom(mat, b, p, 1)

\* Pinv: reciprocal of the diagonal, zero where the diagonal is zero
PinvEntry(mat, k) ==
    IF MatEntry(mat, k, k) = R(0) THEN R(0) ELSE RInv(MatEntry(mat, k, k))

\* potential <- PinvN . potential - Pinv . rhs, with N = P - mat
JacobiSweep(mat, b, p) ==
    Tab([k \in 1..Len(p) |->
        RSub(RMul(PinvEntry(mat, k), RNeg(OffDiagDot(mat, k, p))),
             RMul(PinvEntry(mat, k), b[k]))])

(***************************************************************************)
(* Configurations                                                          *)
(***************************************************************************)
\* a case section (cfg['eval'] or cfg['globals']): the grid, the domain and,
\* in an eval section, the optional refinement keys ("absent": no
\* 'iterative_refine' key)
Case(nnx, nny, Lx, Ly, method, its) ==
    [nnx |-> nnx, nny |-> nny, Lx |-> Lx, Ly |-> Ly,
     iterative_refine |-> method, refine_its |-> its]

Grids == { <<3, 3, 2, 2>>, <<5, 3, 2, 1>> }
TrainCase == Case(6, 6, 2, 2, "absent", 0)

RefineChoices ==
    { <<"absent", 0>> } \cup ({"gauss_seidel", "jacobi"} \X (0..MaxIts))

EvalCases ==
    { Case(g[1], g[2], g[3], g[4], r[1], r[2]) : g \in Grids, r \in RefineChoices }

\* what case_config is given: a case section without refinement keys
PlainCases == { Case(g[1], g[2], g[3], g[4], "absent", 0) : g \in Grids }

\* the architecture database file: name -> definition with default arguments
ArchDB ==
    [n \in {"UNet5"} |->
        [type |-> "UNet", args |-> ("input_res" :> 5) @@ ("kernel_sizes" :> 3)]]

\* cfg['arch'] given inline
InlineArch(res) ==
    [db_file |-> FALSE, name |-> "", type |-> "UNet", has_args |-> TRUE,
     args |-> ("input_res" :> res) @@ ("kernel_sizes" :> 3)]

\* cfg['arch'] naming an entry of the database, with or without 'args'
DbArch(has_args, args) ==
    [db_file |-> TRUE, name |-> "UNet5", type |-> "", has_args |-> has_args, args |-> args]

EmptyArgs == [k \in {} |-> 0]

CallSiteArgs ==
    { EmptyArgs,
      ("input_res" :> 3),
      ("padding" :> 1),
      ("input_res" :> 3) @@ ("padding" :> 1) }

InlineArchs == { InlineArch(3), InlineArch(5) }
DbArchs == { DbArch(FALSE, EmptyArgs) } \cup { DbArch(TRUE, a) : a \in CallSiteArgs }

Config(has_eval, eval, arch, kind, s, gain, loader, metrics) ==
    [has_eval |-> has_eval, eval |-> eval, globals |-> TrainCase, arch |-> arch,
     interp_kind |-> kind, scaling_factor |-> s, alpha |-> R(1), gain |-> gain,
     data_loader_args |-> loader, metrics |-> metrics]

(***************************************************************************)
(* Collaborators of the engine                                             *)
(***************************************************************************)
\* BasePoisson.__init__(cfg): the grid and the domain of the case
BaseInit(case) ==
    [nnx |-> case.nnx, nny |-> case.nny, Lx |-> R(case.Lx), Ly |-> R(case.Ly),
     dx |-> RNorm(case.Lx, case.nnx - 1), dy |-> RNorm(case.Ly, case.nny - 1)]

\* ratio_potrhs(alpha, Lx, Ly) = alpha / (1/Lx^2 + 1/Ly^2); the numeric
\* constant (pi^2/4)^2 of the original is taken into alpha
ratio_potrhs(alpha, Lx, Ly) ==
    RDiv(alpha, RAdd(RDiv(R(1), RMul(Lx, Lx)), RDiv(R(1), RMul(Ly, Ly))))

ResScale(nnx_nn, nnx) == RNorm(nnx_nn * nnx_nn, nnx * nnx)

\* self.model(x): a shape-preserving linear network, the loaded weights
\* being the factor model.gain
Model(model, x) == Scale(R(model.gain), x)

Zeros(n) == [i \in 1..n |-> R(0)]

NoMat == cartesian_matrix(R(1), R(1), 0, 0)
NoBc == [left |-> <<>>, right |-> <<>>, bottom |-> <<>>, top |-> <<>>]

(***************************************************************************)
(* State                                                                   *)
(***************************************************************************)
VARIABLES
    pc,                 \* where the caller of the engine is
    config,             \* the cfg dictionary the constructor was given
    engine,             \* the attributes of the PoissonNetwork object
    physical_rhs,       \* the caller's rhs array, which self.physical_rhs aliases
    caller_rhs,         \* the content of that array when solve was called
    physical_rhs_torch, \* the tensor given to the model
    potential,          \* self.potential
    net_output,         \* the rescaled network output, before any sweep
    interpolate,        \* solve's local flag
    interp_log,         \* the interpolate calls of the current solve: <<size, mode>>
    sweeps,             \* iterations of the refinement loop done in this solve
    calls,              \* solve calls made on the engine
    metrics,            \* self.metrics: name -> [total, counts, average]
    data_loader,        \* evaluate's data loader: the batches of the dataset
    batch_idx,          \* batches of the current evaluate call done so far
    plot,               \* evaluate's arguments
    save_data,
    npy_output,         \* case directory: the arrays held by output.npy
    npy_target,         \* case directory: the arrays held by target.npy
    fig_files,          \* figure directory: the names of the saved figures
    open_figs,          \* pyplot's open figures, the current one last
    evals,              \* evaluate calls made
    case_dir,           \* evaluate's case directory
    dirs,               \* the directories that exist on disk
    main_pc,            \* where eval_dataset.main is
    main_config,        \* the YAML configuration main has read
    h5_file,            \* the metrics file: key -> table (sequence of rows)
    runs                \* runs of main made

solveVars == <<physical_rhs, caller_rhs, physical_rhs_torch, potential, net_output,
               interpolate, interp_log, sweeps, calls>>

loopVars == <<data_loader, batch_idx, case_dir, plot, save_data, evals>>
diskVars == <<npy_output, npy_target, fig_files, dirs>>
mainVars == <<main_pc, main_config, h5_file, runs>>

NoField == <<>>
NoMetrics == [k \in {} |-> 0]
NoFiles == [k \in {} |-> <<>>]
NoEngine == [constructed |-> FALSE]
NoConfig == [has_eval |-> FALSE]

(***************************************************************************)
(* MetricTracker (nn.utils): a running total, count and average per name   *)
(***************************************************************************)
Names(list) == {list[k] : k \in 1..Len(list)}

MetricTrackerReset(names) ==
    [m \in names |-> [total |-> R(0), counts |-> 0, average |-> R(0)]]

MetricTrackerUpdate(tracker, key, value) ==
    [tracker EXCEPT ![key] =
        [total |-> RAdd(@.total, value),
         counts |-> @.counts + 1,
         average |-> RDiv(RAdd(@.total, value), R(@.counts + 1))]]

(***************************************************************************)
(* PoissonNetwork.__init__                                                 *)
(***************************************************************************)
\* {**a, **b}: the keys of both, the value of b where both have the key
DictMerge(a, b) ==
    [k \in (DOMAIN a) \cup (DOMAIN b) |-> IF k \in DOMAIN b THEN b[k] ELSE a[k]]

\* lines 53-59: the architecture section after the database lookup
ResolveArch(arch) ==
    IF arch.db_file
    THEN LET tmp_cfg_arch == ArchDB[arch.name]
         IN  [type |-> tmp_cfg_arch.type,
              args |-> IF arch.has_args
                       THEN DictMerge(arch.args, tmp_cfg_arch.args)
                       ELSE tmp_cfg_arch.args]
    ELSE [type |-> arch.type, args |-> arch.args]

\* lines 108-136: the refinement attributes
RefineSetup(eval, base) ==
    IF eval.iterative_refine # "absent"
    THEN [iterative_refine |-> TRUE,
          refine_method |-> eval.iterative_refine,
          refine_its |-> eval.refine_its,
          mat |-> cartesian_matrix(base.dx, base.dy, base.nnx, base.nny),
          bc |-> [left |-> Zeros(base.nny), right |-> Zeros(base.nny),
                  bottom |-> Zeros(base.nnx), top |-> Zeros(base.nnx)]]
    ELSE [iterative_refine |-> FALSE, refine_method |-> "none", refine_its |-> 0,
          mat |-> NoMat, bc |-> NoBc]

NewEngine(cfg) ==
    LET base == BaseInit(IF cfg.has_eval THEN cfg.eval ELSE cfg.globals)
        arch == ResolveArch(cfg.arch)
        nnx_nn == cfg.globals.nnx
        ref == RefineSetup(cfg.eval, base)
    IN  [constructed |-> TRUE,
         nnx |-> base.nnx, nny |-> base.nny, Lx |-> base.Lx, Ly |-> base.Ly,
         dx |-> base.dx, dy |-> base.dy,
         arch |-> arch,
         nnx_nn |-> nnx_nn,
         has_loader |-> cfg.data_loader_args,
         metric_names |-> IF cfg.data_loader_args THEN cfg.metrics ELSE <<>>,
         alpha |-> cfg.alpha,
         scaling_factor |-> R(cfg.scaling_factor),
         ratio |-> ratio_potrhs(cfg.alpha, base.Lx, base.Ly),
         res_scale |-> ResScale(nnx_nn, base.nnx),
         model |-> [type |-> arch.type,
                    input_res |-> <<arch.args["input_res"], arch.args["input_res"]>>,
                    gain |-> cfg.gain],
         interp_kind |-> IF cfg.interp_kind = "absent" THEN "bilinear" ELSE cfg.interp_kind,
         iterative_refine |-> ref.iterative_refine,
         refine_method |-> ref.refine_method,
         refine_its |-> ref.refine_its,
         mat |-> ref.mat,
         bc |-> ref.bc]

\* without an 'eval' section the lookup cfg['eval'] of line 108 raises KeyError
Construct(cfg) ==
    /\ pc = "Uninitialized"
    /\ config' = cfg
    /\ IF cfg.has_eval
       THEN /\ engine' = NewEngine(cfg)
            /\ pc' = "Ready"
       ELSE /\ engine' = NoEngine
            /\ pc' = "ConstructRaised"
    /\ metrics' = IF cfg.has_eval /\ cfg.data_loader_args
                  THEN MetricTrackerReset(Names(cfg.metrics))
                  ELSE NoMetrics
    /\ UNCHANGED <<solveVars, loopVars, diskVars, open_figs, mainVars>>

(***************************************************************************)
(* PoissonNetwork.case_config                                              *)
(***************************************************************************)
Idle == pc \in {"Ready", "Solved", "Raised", "Returned", "EvalRaised"}

evalVars == <<metrics, loopVars, diskVars, open_figs>>

case_config(case) ==
    /\ Idle
    /\ LET base == BaseInit(case)
       IN  engine' = [engine EXCEPT
                !.nnx = base.nnx, !.nny = base.nny, !.Lx = base.Lx, !.Ly = base.Ly,
                !.dx = base.dx, !.dy = base.dy,
                !.ratio = ratio_potrhs(engine.alpha, base.Lx, base.Ly),
                !.res_scale = ResScale(engine.nnx_nn, base.nnx)]
    /\ pc' = "Ready"
    /\ UNCHANGED <<config, solveVars, evalVars, mainVars>>

(***************************************************************************)
(* PoissonNetwork.solve                                                    *)
(***************************************************************************)
\* the fields a caller passes: of the shape of the configured grid
Ramp(rows, cols) == [i \in 1..rows |-> [j \in 1..cols |-> R(i + 2 * j)]]

RhsInputs(rows, cols) == { ConstField(rows, cols, R(0)), Ramp(rows, cols) }

\* line 158
NeedsInterpolation(model, rhs) == model.input_res # Shape(rhs)

\* lines 165-166: the rescaled input
InputRescale(e, rhs) == Scale(RMul(e.ratio, e.scaling_factor), rhs)

\* lines 174-177
ResampleUp(interp, e, x) ==
    IF interp THEN Interpolate(x, e.model.input_res, e.interp_kind) ELSE x

\* a variant that never resamples back
ResampleBackNever(interp, e, x, shape) == x

\* lines 183-186
ResampleBack(interp, e, x, shape) ==
    IF interp THEN Interpolate(x, shape, e.interp_kind) ELSE x

\* the interpolate calls of lines 174-186, in order
InterpCalls(interp, e, shape) ==
    (IF interp THEN << <<e.model.input_res, e.interp_kind>> >> ELSE <<>>)
    \o (IF interp THEN << <<shape, e.interp_kind>> >> ELSE <<>>)

\* a variant without the division by scaling_factor
OutputRescaleNoDivision(e, y) == Scale(e.res_scale, y)

\* line 196: the rescaled output
OutputRescale(e, y) == Scale(RDiv(e.res_scale, e.scaling_factor), y)

\* lines 154-201: the forward pass, up to the rescaled network output
SolveForward(rhs) ==
    /\ Idle
    /\ calls < MaxCalls
    /\ \E interp \in {NeedsInterpolation(engine.model, rhs)} :
       \E scaled \in {InputRescale(engine, rhs)} :
       \E input \in {ResampleUp(interp, engine, scaled)} :
       \E raw \in {Model(engine.model, input)} :
       \E output \in {ResampleBack(interp, engine, raw, Shape(rhs))} :
       \E pot \in {OutputRescale(engine, output)} :
           /\ interpolate' = interp
           /\ physical_rhs_torch' = input
           /\ potential' = pot
           /\ net_output' = pot
           /\ interp_log' = InterpCalls(interp, engine, Shape(rhs))
    /\ physical_rhs' = rhs
    /\ caller_rhs' = rhs
    /\ sweeps' = 0
    /\ calls' = calls + 1
    /\ pc' = "Forwarded"
    /\ UNCHANGED <<config, engine, evalVars, mainVars>>

\* line 205.  When a boundary array does not fit the field the assignment
\* raises; the sides written before it depend on the order of the
\* assignments, so the field is then left as it was or with the fitting sides
\* written.
FittingSides(rhs, bc) ==
    LET rows == Len(rhs)
        cols == Shape(rhs)[2]
    IN  [i \in 1..rows |-> [j \in 1..cols |->
            IF Len(bc.top) = cols /\ i \in {1, rows} THEN R(0)
            ELSE IF Len(bc.left) = rows /\ j \in {1, cols} THEN R(0)
            ELSE rhs[i][j]]]

SolveImpose ==
    /\ pc = "Forwarded"
    /\ engine.iterative_refine
    /\ IF BcFits(physical_rhs, engine.bc)
       THEN /\ physical_rhs' = impose_dirichlet(physical_rhs, engine.bc)
            /\ pc' = "Sweeping"
       ELSE /\ physical_rhs' \in {physical_rhs, FittingSides(physical_rhs, engine.bc)}
            /\ pc' = "Raised"
    /\ UNCHANGED <<config, engine, caller_rhs, physical_rhs_torch, potential, net_output,
                   interpolate, interp_log, sweeps, calls, evalVars, mainVars>>

\* a variant that stops one iteration short
LoopRunsOneShort(done, refine_its) == done + 1 < refine_its

\* line 206: the loop runs while iterations of range(refine_its) remain
LoopRuns(done, refine_its) == done < refine_its

\* lines 207-217: one iteration.  The boundary arrays fitted the field at
\* line 205, so the operators have the length of the flattened field.
Sweep(e, b, p) ==
    IF e.refine_method = "gauss_seidel"
    THEN GaussSeidelSweep(e.mat, b, p)
    ELSE JacobiSweep(e.mat, b, p)

\* a variant in which the iteration reads a copy of the rhs as passed
SweepRhsAsPassed(self_rhs, passed_rhs) == passed_rhs

\* lines 209 and 215: an iteration reads self.physical_rhs
SweepRhs(self_rhs, passed_rhs) == self_rhs

SolveSweep ==
    /\ pc = "Sweeping"
    /\ LoopRuns(sweeps, engine.refine_its)
    /\ \E b \in {Flatten(SweepRhs(physical_rhs, caller_rhs))} :
       \E p \in {Flatten(potential)} :
       \E q \in {Sweep(engine, b, p)} :
           potential' = Reshape(q, engine.nny, engine.nnx)
    /\ sweeps' = sweeps + 1
    /\ UNCHANGED <<pc, config, engine, physical_rhs, caller_rhs, physical_rhs_torch,
                   net_output, interpolate, interp_log, calls, evalVars, mainVars>>

\* line 204 (no refinement) or the end of the loop of line 206
SolveReturn ==
    /\ \/ pc = "Forwarded" /\ ~engine.iterative_refine
       \/ pc = "Sweeping" /\ ~LoopRuns(sweeps, engine.refine_its)
    /\ pc' = "Solved"
    /\ UNCHANGED <<config, engine, solveVars, evalVars, mainVars>>

(***************************************************************************)
(* Specification of the engine's life: construction, case_config, solve    *)
(***************************************************************************)
solveConfigs ==
    { Config(TRUE, ev, ar, k, s, g, FALSE, <<>>) :
        ev \in EvalCases, ar \in InlineArchs, k \in {"absent", "bicubic"},
        s \in {1, 10}, g \in {2} }
    \cup { Config(FALSE, TrainCase, InlineArch(3), "absent", 1, 2, FALSE, <<>>) }

InitOn(existing) ==
    /\ pc = "Uninitialized"
    /\ config = NoConfig
    /\ engine = NoEngine
    /\ physical_rhs = NoField
    /\ caller_rhs = NoField
    /\ physical_rhs_torch = NoField
    /\ potential = NoField
    /\ net_output = NoField
    /\ interpolate = FALSE
    /\ interp_log = <<>>
    /\ sweeps = 0
    /\ calls = 0
    /\ metrics = NoMetrics
    /\ data_loader = <<>>
    /\ batch_idx = 0
    /\ plot = FALSE
    /\ save_data = FALSE
    /\ case_dir = <<>>
    /\ dirs = existing
    /\ npy_output = NoFiles
    /\ npy_target = NoFiles
    /\ fig_files = {}
    /\ open_figs = <<>>
    /\ evals = 0
    /\ main_pc = "none"
    /\ main_config = NoConfig
    /\ h5_file = NoFiles
    /\ runs = 0

Init == InitOn({})

vars == <<pc, config, engine, solveVars, evalVars, mainVars>>

\* the calls made on a constructed engine
EngineStep ==
    \/ Idle /\ \E case \in PlainCases : case_config(case)
    \/ Idle /\ \E rhs \in RhsInputs(engine.nny, engine.nnx) : SolveForward(rhs)
    \/ SolveImpose
    \/ SolveSweep
    \/ SolveReturn

Next ==
    \/ pc = "Uninitialized" /\ \E cfg \in solveConfigs : Construct(cfg)
    \/ EngineStep

Spec == Init /\ [][Next]_vars

(***************************************************************************)
(* Specification of the architecture lookup: engines built from inline and *)
(* from database architectures                                             *)
(***************************************************************************)
archConfigs ==
    { Config(TRUE, ev, ar, "absent", 10, 2, FALSE, <<>>) :
        ev \in { Case(3, 3, 2, 2, "absent", 0), Case(3, 3, 2, 2, "jacobi", 1) },
        ar \in InlineArchs \cup DbArchs }

NextArch ==
    \/ pc = "Uninitialized" /\ \E cfg \in archConfigs : Construct(cfg)
    \/ EngineStep

SpecArch == Init /\ [][NextArch]_vars

(***************************************************************************)
(* Datasets, metric functions and plotting                                 *)
(***************************************************************************)
\* a batch as the data loader yields it: the input and the target tensor
Batch(data, target) == [data |-> data, target |-> target]

BatchA == Batch(<< <<R(1), R(2)>> >>, << <<R(10), R(30)>> >>)
BatchB == Batch(<< <<R(0), R(3)>> >>, << <<R(20), R(0)>> >>)
BatchChoices == { BatchA, BatchB }

\* the first n batches of the stream that starts with first and alternates
FirstBatches(first, second, n) ==
    [k \in 1..n |-> IF k % 2 = 1 THEN first ELSE second]

\* what a dataset location holds: up to MaxBatches batches
Datasets ==
    { FirstBatches(b, c, n) : b \in BatchChoices, c \in BatchChoices, n \in 0..MaxBatches } \
    { FirstBatches(b, b, n) : b \in BatchChoices, n \in 2..MaxBatches }

MetricLists == { <<"residual", "inf_norm">>, <<"inf_norm">> }

\* |output - target| of every entry, flattened
AbsDiff(output, target) ==
    CHOOSE r \in {Tab([k \in 1..Len(o) |-> RAbs(RSub(o[k], t[k]))]) :
                    o \in {Flatten(output)}, t \in {Flatten(target)}} : TRUE

RECURSIVE MaxTo(_, _)
MaxTo(v, n) ==
    IF n = 0 THEN R(0)
    ELSE CHOOSE r \in {RMax(m, v[n]) : m \in {MaxTo(v, n - 1)}} : TRUE

\* the metric functions of nn.metric: called with (output, target, config),
\* each returns one scalar
residual(output, target) ==
    CHOOSE r \in {RDiv(RSum(d), R(Len(d))) : d \in {AbsDiff(output, target)}} : TRUE

inf_norm(output, target) ==
    CHOOSE r \in {MaxTo(d, Len(d)) : d \in {AbsDiff(output, target)}} : TRUE

Metric(name, output, target) ==
    IF name = "residual" THEN residual(output, target) ELSE inf_norm(output, target)

\* plot_batch and plot_batch_Efield of nn.trainer: each opens a new pyplot
\* figure, which becomes the current one, and returns it
plot_batch(figs, idx) == Append(figs, [kind |-> "batch", idx |-> idx])
plot_batch_Efield(figs, idx) == Append(figs, [kind |-> "batch_Efield", idx |-> idx])

\* matplotlib.pyplot.close() without argument: closes the current figure
PltClose(figs) == IF figs = <<>> THEN <<>> ELSE SubSeq(figs, 1, Len(figs) - 1)

\* fig.savefig(fig_dir / '<kind>_{:05d}.png'.format(i))
SaveFig(saved, dir, fig) == saved \cup { <<dir, fig.kind, fig.idx>> }

\* a dictionary with key k set to v
Put(f, k, v) == [x \in DOMAIN f \cup {k} |-> IF x = k THEN v ELSE f[x]]

\* np.save into a file opened in mode 'wb': the file holds this array alone
WriteArray(file, array) == <<array>>

FileOf(disk, dir) == IF dir \in DOMAIN disk THEN disk[dir] ELSE <<>>

(***************************************************************************)
(* PoissonNetwork.evaluate                                                 *)
(***************************************************************************)
CaseDirs == { <<"a">>, <<"b">> }

\* a variant without the reset
KeepMetrics(tracker, names) == tracker
\* self.metrics.reset() before the loop
MetricsAtStart(tracker, names) == MetricTrackerReset(names)

\* the statements of evaluate before its loop; an engine built without a
\* data loader has no data_loader_cfg and the call raises AttributeError
EvaluateBegin(dataset, dir, do_plot, do_save) ==
    /\ Idle
    /\ main_pc = "none"
    /\ evals < MaxCalls
    /\ evals' = evals + 1
    /\ case_dir' = dir
    /\ plot' = do_plot
    /\ save_data' = do_save
    /\ dirs' = IF do_plot THEN dirs \cup {dir} ELSE dirs
    /\ IF engine.has_loader
       THEN /\ data_loader' = dataset
            /\ metrics' = MetricsAtStart(metrics, Names(engine.metric_names))
            /\ batch_idx' = 0
            /\ pc' = "Evaluating"
       ELSE /\ pc' = "Raised"
            /\ UNCHANGED <<data_loader, metrics, batch_idx>>
    /\ UNCHANGED <<config, engine, solveVars, npy_output, npy_target, fig_files,
                   open_figs, mainVars>>

\* output = self.res_scale / self.scaling_factor * self.model(data)
EvalOutput(e, data) == Scale(RDiv(e.res_scale, e.scaling_factor), Model(e.model, data))

\* target /= self.scaling_factor
EvalTarget(e, target) == Scale(RInv(e.scaling_factor), target)

\* for metric in self.metric_ftns: self.metrics.update(name, metric(...))
RECURSIVE UpdateMetrics(_, _, _, _, _)
UpdateMetrics(tracker, names, n, output, target) ==
    IF n = 0 THEN tracker
    ELSE CHOOSE r \in {MetricTrackerUpdate(t, names[n], Metric(names[n], output, target)) :
                         t \in {UpdateMetrics(tracker, names, n - 1, output, target)}} : TRUE

\* the figures of one batch: two are opened and saved, then plt.close()
PlotBatch(figs, idx) == PltClose(plot_batch_Efield(plot_batch(figs, idx), idx))

\* one pass of the loop body of evaluate on batch number batch_idx; with
\* save_data and no case directory the first open(..., 'wb') raises
EvalBatch ==
    /\ pc = "Evaluating"
    /\ batch_idx < Len(data_loader)
    /\ \E output \in {EvalOutput(engine, data_loader[batch_idx + 1].data)},
          target \in {EvalTarget(engine, data_loader[batch_idx + 1].target)} :
          /\ metrics' = UpdateMetrics(metrics, engine.metric_names,
                                      Len(engine.metric_names), output, target)
          /\ IF plot
             THEN /\ open_figs' = PlotBatch(open_figs, batch_idx)
                  /\ fig_files' =
                        SaveFig(SaveFig(fig_files, case_dir,
                                        [kind |-> "batch", idx |-> batch_idx]),
                                case_dir, [kind |-> "batch_Efield", idx |-> batch_idx])
             ELSE UNCHANGED <<open_figs, fig_files>>
          /\ IF save_data /\ case_dir \notin dirs
             THEN /\ pc' = "EvalRaised"
                  /\ UNCHANGED <<npy_output, npy_target, batch_idx>>
             ELSE /\ IF save_data
                     THEN /\ npy_output' = Put(npy_output, case_dir,
                                               WriteArray(FileOf(npy_output, case_dir), output))
                          /\ npy_target' = Put(npy_target, case_dir,
                                               WriteArray(FileOf(npy_target, case_dir), target))
                     ELSE UNCHANGED <<npy_output, npy_target>>
                  /\ batch_idx' = batch_idx + 1
                  /\ pc' = "Evaluating"
    /\ UNCHANGED <<config, engine, solveVars, data_loader, case_dir, plot, save_data,
                   dirs, evals, mainVars>>

\* return self.metrics
EvalReturn ==
    /\ pc = "Evaluating"
    /\ batch_idx = Len(data_loader)
    /\ pc' = "Returned"
    /\ UNCHANGED <<config, engine, solveVars, evalVars, mainVars>>

(***************************************************************************)
(* Specification of evaluation: an engine with a data loader, evaluated    *)
(* on datasets                                                             *)
(***************************************************************************)
evalConfigs ==
    { Config(TRUE, Case(3, 3, 2, 2, "absent", 0), InlineArch(3), "absent", 10, 2, TRUE, ml) :
        ml \in MetricLists }
    \cup { Config(TRUE, Case(3, 3, 2, 2, "absent", 0), InlineArch(3), "absent", 10, 2,
                  FALSE, <<"inf_norm">>) }

InitEval == InitOn({})

NextEval ==
    \/ pc = "Uninitialized" /\ \E cfg \in evalConfigs : Construct(cfg)
    \/ \E dataset \in Datasets, dir \in CaseDirs, do_plot \in BOOLEAN, do_save \in BOOLEAN :
          EvaluateBegin(dataset, dir, do_plot, do_save)
    \/ EvalBatch
    \/ EvalReturn

SpecEval == InitEval /\ [][NextEval]_vars

(***************************************************************************)
(* eval_dataset.main                                                       *)
(***************************************************************************)
\* text is a sequence of characters; the index of the first sep in s from k
\* on, or 0
RECURSIVE Find(_, _, _)
Find(s, sep, k) ==
    IF k > Len(s) THEN 0
    ELSE IF s[k] = sep THEN k
    ELSE Find(s, sep, k + 1)

\* str.split(sep)
RECURSIVE Split(_, _)
Split(s, sep) ==
    IF Find(s, sep, 1) = 0 THEN << s >>
    ELSE CHOOSE r \in {<< SubSeq(s, 1, k - 1) >> \o Split(SubSeq(s, k + 1, Len(s)), sep) :
                         k \in {Find(s, sep, 1)}} : TRUE

\* Path(a) / b
PathJoin(a, b) == a \o << "/" >> \o b

CaseNames == { << "c", "/", "u" >>, << "c", "/", "v", "/", "w" >>, << "u" >> }
DatasetNames == { << "r", "_", "8" >>, << "f" >> }
FileNames == { << "m" >> }

\* the attributes main reads from the loaded model (nn.models)
ModelProperties(arch) ==
    [rf_global_x |-> 2 * arch.args["kernel_sizes"] + 1,
     n_scales |-> 2,
     depths |-> << 1, 2 >>,
     kernel_sizes |-> << arch.args["kernel_sizes"], arch.args["kernel_sizes"] >>]

RECURSIVE SumSeq(_, _)
SumSeq(v, n) == IF n = 0 THEN 0 ELSE v[n] + SumSeq(v, n - 1)

\* the YAML file given with -c together with the -fn option
MainConfig(casename, metric_list, s, ds_name, ds, filename) ==
    [network |-> Config(FALSE, TrainCase, InlineArch(3), "absent", s, 2, TRUE, metric_list),
     casename |-> casename,
     eval |-> Case(3, 3, 2, 2, "absent", 0),
     datasets |-> << [name |-> ds_name, loc |-> ds] >>,
     filename |-> filename]

\* config['network']['eval'] = config['eval']
NetworkConfig(cfg) == [cfg.network EXCEPT !.has_eval = TRUE, !.eval = cfg.eval]

\* list(config['datasets'].keys())[0] and its location
DatasetOf(cfg) == cfg.datasets[1]

DataDir(cfg) == cfg.casename
CaseDir(cfg) == PathJoin(DataDir(cfg), DatasetOf(cfg).name)
H5Path(cfg) == PathJoin(DataDir(cfg), cfg.filename \o << ".", "h", "5" >>)

\* main from its start to the first batch of evaluate: a run is a new
\* process, with a new engine and no open figure; what is on disk stays
MainBegin(cfg) ==
    /\ \/ main_pc = "none" /\ pc = "Uninitialized"
       \/ main_pc \in {"exited", "raised"}
    /\ runs < MaxRuns
    /\ runs' = runs + 1
    /\ main_config' = cfg
    /\ main_pc' = "running"
    /\ config' = NetworkConfig(cfg)
    /\ \E e \in {NewEngine(NetworkConfig(cfg))} :
          /\ engine' = e
          /\ metrics' = MetricsAtStart(MetricTrackerReset(Names(e.metric_names)),
                                       Names(e.metric_names))
    /\ dirs' = dirs \cup {DataDir(cfg), CaseDir(cfg)}
    /\ case_dir' = CaseDir(cfg)
    /\ data_loader' = DatasetOf(cfg).loc
    /\ batch_idx' = 0
    /\ plot' = TRUE
    /\ save_data' = TRUE
    /\ evals' = 1
    /\ open_figs' = <<>>
    /\ pc' = "Evaluating"
    /\ UNCHANGED <<solveVars, npy_output, npy_target, fig_files, h5_file>>

\* the rows of the report: one per metric name of the list
ReportRows(cfg, e, tracker, names, nn_name) ==
    [k \in 1..Len(names) |->
        [nn_name |-> nn_name,
         nn_type |-> e.model.type,
         rf_global |-> ModelProperties(e.arch).rf_global_x,
         nbranches |-> ModelProperties(e.arch).n_scales,
         depth |-> SumSeq(ModelProperties(e.arch).depths,
                          Len(ModelProperties(e.arch).depths)),
         ks |-> ModelProperties(e.arch).kernel_sizes[1],
         ds_name |-> DatasetOf(cfg).name,
         ds_type |-> Split(DatasetOf(cfg).name, "_")[1],
         test_res |-> cfg.eval.nnx,
         train_res |-> cfg.network.globals.nnx,
         metric_name |-> names[k],
         value |-> tracker[names[k]].average]]

\* a variant that appends the rows to the table the file holds
ToHdfAppend(file, key, df) ==
    Put(file, key, (IF key \in DOMAIN file THEN file[key] ELSE <<>>) \o df)
\* df.to_hdf(path, key=key, mode='w'): a new file with this one table
ToHdf(file, key, df) == (key :> df)

NoH5 == [k \in {} |-> <<>>]

\* main after evaluate has returned; a casename without '/' has no second
\* part and building the first row raises IndexError
MainReport ==
    /\ main_pc = "running"
    /\ pc = "Returned"
    /\ \E parts \in {Split(main_config.casename, "/")} :
          IF Len(parts) < 2 /\ Len(main_config.network.metrics) > 0
          THEN /\ main_pc' = "raised"
               /\ UNCHANGED h5_file
          ELSE /\ main_pc' = "exited"
               /\ \E old \in {IF H5Path(main_config) \in DOMAIN h5_file
                              THEN h5_file[H5Path(main_config)] ELSE NoH5} :
                     h5_file' = Put(h5_file, H5Path(main_config),
                                    ToHdf(old, "df",
                                          ReportRows(main_config, engine, metrics,
                                                     main_config.network.metrics,
                                                     IF Len(parts) < 2 THEN <<>>
                                                     ELSE parts[2])))
    /\ UNCHANGED <<pc, config, engine, solveVars, evalVars, main_config, runs>>

(***************************************************************************)
(* Specification of the command line: runs of main                         *)
(***************************************************************************)
\* the batches found at the location of a dataset
DatasetAt(ds_name, n) ==
    IF Len(ds_name) = 1 THEN FirstBatches(BatchB, BatchA, n)
    ELSE FirstBatches(BatchA, BatchB, n)

mainConfigs ==
    { MainConfig(cn, ml, 10, dn, DatasetAt(dn, n), fn) :
        cn \in CaseNames, ml \in MetricLists, dn \in DatasetNames, n \in 0..MaxBatches,
        fn \in FileNames }

NextMain ==
    \/ \E cfg \in mainConfigs : MainBegin(cfg)
    \/ EvalBatch
    \/ EvalReturn
    \/ MainReport

SpecMain == Init /\ [][NextMain]_vars

(***************************************************************************)
(* Claims about solve                                                      *)
(***************************************************************************)
Constructed == pc \notin {"Uninitialized", "ConstructRaised"}
InSolve == pc \in {"Forwarded", "Sweeping", "Solved"}

\* n sweeps of the engine's method applied to the flat potential p
RECURSIVE IterSweeps(_, _, _, _)
IterSweeps(e, b, p, n) ==
    IF n = 0 THEN p
    ELSE CHOOSE r \in {IterSweeps(e, b, q, m) : q \in {Sweep(e, b, p)}, m \in {n - 1}} : TRUE

SweptPotential(e, rhs, start, n) ==
    CHOOSE r \in {Reshape(IterSweeps(e, b, p, n), Len(start), Len(start[1])) :
                    b \in {Flatten(rhs)}, p \in {Flatten(start)}} : TRUE

\* C1: a solve on an engine with refinement returns after exactly refine_its
\* sweeps (never more while it runs), its potential being the rescaled
\* network output swept refine_its times; with refine_its = 0 it is the
\* rescaled network output unchanged.
C1_ExactlyRefineItsSweeps ==
    /\ (pc = "Sweeping") => sweeps <= engine.refine_its
    /\ (pc = "Solved" /\ engine.iterative_refine) =>
            /\ sweeps = engine.refine_its
            /\ potential = SweptPotential(engine, physical_rhs, net_output, engine.refine_its)
            /\ (engine.refine_its = 0 => potential = net_output)
    /\ (pc = "Solved" /\ ~engine.iterative_refine) => sweeps = 0 /\ potential = net_output

\* a second solve call has returned after two sweeps that changed the potential
C1_Witness ==
    /\ pc = "Solved" /\ engine.iterative_refine
    /\ calls = 2 /\ sweeps = 2 /\ potential # net_output

\* C3: with refinement configured, the system matrix (and the operators
\* split from it) is square of size nnx * nny of the currently configured grid.
C3_OperatorsBelongToGrid ==
    (Constructed /\ engine.iterative_refine) =>
        MatSize(engine.mat) = engine.nnx * engine.nny

\* the boundary value the configured boundary arrays give entry (i, j)
IsBoundaryEntry(f, i, j) == i \in {1, Len(f)} \/ j \in {1, Len(f[1])}

\* C5: with refinement, the boundary values are imposed in place on the
\* caller's rhs after the forward pass and before the first sweep: the
\* network input comes from the rhs as passed, the sweeps read the enforced
\* rhs, and from then on the caller's array holds the boundary values on its
\* boundary (its interior as passed); without refinement it is unchanged.
C5_BoundaryImposedInPlace ==
    /\ (pc = "Forwarded") => physical_rhs = caller_rhs
    /\ InSolve =>
            physical_rhs_torch =
                ResampleUp(engine.model.input_res # Shape(caller_rhs), engine,
                           Scale(RMul(engine.ratio, engine.scaling_factor), caller_rhs))
    /\ (pc \in {"Sweeping", "Solved"} /\ engine.iterative_refine) =>
            /\ \A i \in 1..Len(caller_rhs) : \A j \in 1..Len(caller_rhs[1]) :
                    physical_rhs[i][j] =
                        IF IsBoundaryEntry(caller_rhs, i, j) THEN R(0) ELSE caller_rhs[i][j]
            /\ potential =
                SweptPotential(engine, impose_dirichlet(caller_rhs, engine.bc),
                               net_output, sweeps)
    /\ (pc = "Solved" /\ ~engine.iterative_refine) => physical_rhs = caller_rhs

\* a solve with refine_its = 0 has returned with the caller's array changed
C5_Witness ==
    /\ pc = "Solved" /\ engine.iterative_refine /\ engine.refine_its = 0
    /\ physical_rhs # caller_rhs
    /\ interpolate

\* C6: the output is resampled back to the field's resolution exactly when
\* the input was resampled to the model's input resolution, with the same
\* interpolation kind, so the potential has the shape of the rhs.
C6_ResampledBackIffResampledUp ==
    InSolve =>
        /\ Len(interp_log) = (IF engine.model.input_res # Shape(caller_rhs) THEN 2 ELSE 0)
        /\ Len(interp_log) = 2 =>
                /\ interp_log[1][1] = engine.model.input_res
                /\ interp_log[2][1] = Shape(caller_rhs)
                /\ interp_log[1][2] = interp_log[2][2]
        /\ Shape(physical_rhs_torch) =
                (IF Len(interp_log) = 2 THEN engine.model.input_res ELSE Shape(caller_rhs))
        /\ Shape(net_output) = Shape(caller_rhs)
        /\ Shape(potential) = Shape(caller_rhs)

\* a solve whose input was resampled has returned
C6_Witness ==
    /\ pc = "Solved"
    /\ interpolate
    /\ Shape(physical_rhs_torch) # Shape(caller_rhs)
    /\ Shape(potential) = Shape(caller_rhs)
    /\ engine.interp_kind = "bicubic"

\* the example of the rescale property: ratio = 2, s = 10, r = 4
RescaleExample ==
    /\ engine.ratio = R(2)
    /\ engine.scaling_factor = R(10)
    /\ engine.res_scale = R(4)

PlainSolve == pc = "Solved" /\ ~engine.iterative_refine /\ ~interpolate

\* C9 as stated: the two rescales compose to the factor r * ratio applied to
\* the model's transform, independent of s, and on the example ratio = 2,
\* s = 10, r = 4 that factor is 0.8.
C9_AsStated ==
    PlainSolve =>
        /\ potential = Scale(RMul(engine.res_scale, engine.ratio),
                             Model(engine.model, caller_rhs))
        /\ RescaleExample =>
                potential = Scale(<<4, 5>>, Model(engine.model, caller_rhs))

\* C9 as amended: the two rescales compose to the factor r * ratio applied to
\* the model's transform, independent of s; on the example ratio = 2,
\* s = 10, r = 4 that factor is 8.
C9_CombinedFactor ==
    PlainSolve =>
        /\ potential = Scale(RMul(engine.res_scale, engine.ratio),
                             Model(engine.model, caller_rhs))
        /\ RescaleExample =>
                potential = Scale(R(8), Model(engine.model, caller_rhs))

\* a plain solve of a non-zero field on the example's factors has returned
C9_Witness ==
    /\ PlainSolve
    /\ RescaleExample
    /\ caller_rhs = Ramp(3, 3)

(***************************************************************************)
(* Claims about the architecture lookup                                    *)
(***************************************************************************)
\* C2: with a database architecture and call-site arguments, the resolved
\* arguments have the keys of both, the call-site value where both have the
\* key, and the only value elsewhere.
C2_CallSiteOverridesDatabase ==
    (Constructed /\ config.arch.db_file /\ config.arch.has_args) =>
        LET site == config.arch.args
            db   == ArchDB[config.arch.name].args
            got  == engine.arch.args
        IN  /\ DOMAIN got = (DOMAIN site) \cup (DOMAIN db)
            /\ \A k \in DOMAIN site : got[k] = site[k]
            /\ \A k \in (DOMAIN db) \ (DOMAIN site) : got[k] = db[k]



(***************************************************************************)
(* Claims about evaluate                                                   *)
(***************************************************************************)
InEvaluate == pc \in {"Evaluating", "Returned"}

\* the sum of the values of metric name over the first n batches, computed
\* from the batches themselves
RECURSIVE MetricTotal(_, _, _, _)
MetricTotal(e, name, batches, n) ==
    IF n = 0 THEN R(0)
    ELSE CHOOSE r \in {RAdd(t, Metric(name, EvalOutput(e, batches[n].data),
                                      EvalTarget(e, batches[n].target))) :
                         t \in {MetricTotal(e, name, batches, n - 1)}} : TRUE

\* C4: in an evaluate call the accumulator holds, for every configured
\* metric, a count equal to the number of batches of this call done so far
\* and an average equal to the mean of this call's values alone, whatever
\* earlier evaluate calls on the engine have left in it
C4_AccumulatorHoldsThisRunOnly ==
    InEvaluate =>
        /\ DOMAIN metrics = Names(engine.metric_names)
        /\ \A m \in DOMAIN metrics :
              /\ metrics[m].counts = batch_idx
              /\ metrics[m].total = MetricTotal(engine, m, data_loader, batch_idx)
              /\ metrics[m].average =
                    IF batch_idx = 0 THEN R(0)
                    ELSE RDiv(MetricTotal(engine, m, data_loader, batch_idx), R(batch_idx))

\* a second evaluate, over two batches, has returned on an engine whose
\* earlier evaluate processed batches as well (it saved figures, this one
\* does not plot)
C4_Witness ==
    /\ pc = "Returned"
    /\ evals = 2
    /\ Len(data_loader) = 2
    /\ ~plot
    /\ fig_files # {}
    /\ "inf_norm" \in DOMAIN metrics
    /\ metrics["inf_norm"].counts = 2
    /\ metrics["inf_norm"].average # R(0)

\* C7: with save_data every batch of evaluate writes output.npy and
\* target.npy of the case directory, and once a batch is done the two files
\* hold the arrays of that batch and nothing else
C7_EveryBatchOverwritesFiles ==
    save_data =>
        /\ pc # "EvalRaised"
        /\ (InEvaluate /\ batch_idx >= 1) =>
              /\ FileOf(npy_output, case_dir) =
                    << EvalOutput(engine, data_loader[batch_idx].data) >>
              /\ FileOf(npy_target, case_dir) =
                    << EvalTarget(engine, data_loader[batch_idx].target) >>

\* where the case directory exists when the first array is written, every
\* batch done has replaced both files by its own arrays
OverwritesWhereDirectoryExists ==
    (save_data /\ InEvaluate /\ batch_idx >= 1) =>
        /\ FileOf(npy_output, case_dir) =
              << EvalOutput(engine, data_loader[batch_idx].data) >>
        /\ FileOf(npy_target, case_dir) =
              << EvalTarget(engine, data_loader[batch_idx].target) >>

\* C10: with plotting, no figure opened by evaluate is still open once the
\* batch is done
C10_NoFigureLeftOpen == open_figs = <<>>

(***************************************************************************)
(* Claims about main                                                       *)
(***************************************************************************)
\* part is the piece of s that starts at index from and ends before the next
\* sep, or with s
IsPartAt(s, sep, from, part) ==
    /\ \A j \in 1..Len(part) : part[j] # sep
    /\ from + Len(part) - 1 <= Len(s)
    /\ SubSeq(s, from, from + Len(part) - 1) = part
    /\ \/ from + Len(part) - 1 = Len(s)
       \/ s[from + Len(part)] = sep

\* C8: when main has written the report, the file holds the table 'df'
\* alone, with one row per name of the metric list in the order of the
\* list, the value of a row being the average the accumulator holds for the
\* name (the mean over the batches of this run) and its identity columns
\* those of the configuration of this run
C8_ReportIsLastRunOnly ==
    main_pc = "exited" =>
        \E names \in {main_config.network.metrics},
           file \in {h5_file[H5Path(main_config)]} :
            /\ DOMAIN file = {"df"}
            /\ Len(file["df"]) = Len(names)
            /\ \A k \in 1..Len(names) :
                  \E row \in {file["df"][k]} :
                     /\ row.metric_name = names[k]
                     /\ row.value = metrics[names[k]].average
                     /\ row.value =
                           IF Len(data_loader) = 0 THEN R(0)
                           ELSE RDiv(MetricTotal(engine, names[k], data_loader,
                                                 Len(data_loader)),
                                     R(Len(data_loader)))
                     /\ \E c \in 1..Len(main_config.casename) :
                           /\ main_config.casename[c] = "/"
                           /\ \A j \in 1..(c - 1) : main_config.casename[j] # "/"
                           /\ IsPartAt(main_config.casename, "/", c + 1, row.nn_name)
                     /\ row.ds_name = main_config.datasets[1].name
                     /\ IsPartAt(row.ds_name, "_", 1, row.ds_type)
                     /\ row.nn_type = "UNet"
                     /\ row.test_res = main_config.eval.nnx
                     /\ row.train_res = main_config.network.globals.nnx
                     /\ row.ks = main_config.network.arch.args["kernel_sizes"]

\* a second run of main has written a two-row report from two batches
C8_Witness ==
    /\ main_pc = "exited"
    /\ runs = 2
    /\ Len(data_loader) = 2
    /\ H5Path(main_config) \in DOMAIN h5_file
    /\ Len(h5_file[H5Path(main_config)]["df"]) = 2
    /\ h5_file[H5Path(main_config)]["df"][2].value # R(0)

(***************************************************************************)
(* Claims about construction                                               *)
(***************************************************************************)
\* C11: construction from a configuration without an 'eval' section
\* succeeds: the case is that of 'globals' and the engine is ready without
\* refinement, so that a solve on it applies no sweeps
C11_ConstructsWithoutEval ==
    (pc # "Uninitialized" /\ ~config.has_eval) =>
        /\ pc # "ConstructRaised"
        /\ engine.constructed
        /\ engine.nnx = config.globals.nnx
        /\ engine.nny = config.globals.nny
        /\ ~engine.iterative_refine
        /\ sweeps = 0
====
